---- MODULE Spec2Model ----
(***************************************************************************)
(* A model of periphery/mmio.py: the MMIO class, which maps a window of    *)
(* /dev/mem and offers bounds-checked 8/16/32-bit and byte-string access.  *)
(*                                                                         *)
(* Python integers are unbounded and TLC's are 32-bit, so an integer that  *)
(* is read from or written to a register (a "value") is carried as a sign  *)
(* and its base-256 digits, least significant first, without leading zero  *)
(* digits.  Addresses, sizes and offsets stay plain integers.  Arguments    *)
(* are integers (and byte lists) throughout, so the isinstance tests of    *)
(* the methods pass and their TypeError branches are left out.             *)
(***************************************************************************)
EXTENDS Integers, Sequences, FiniteSets, TLC

(***************************************************************************)
(* Bounds of the model.                                                    *)
(***************************************************************************)
\* read and write calls in one behaviour of Spec
MaxCalls == 1
\* read and write calls in one behaviour of SpecWord
MaxWordCalls == 2
\* read and write calls in one behaviour of SpecBytes
MaxByteCalls == 3
\* read and write calls in one behaviour of SpecAlign
MaxAlignCalls == 1
\* ctypes objects from the pointer property alive at one time
MaxExports == 1

(***************************************************************************)
(* Values: unbounded integers as sign and base-256 digits.                 *)
(***************************************************************************)
Val(digits) == [neg |-> FALSE, mag |-> digits]
Neg(digits) == [neg |-> TRUE, mag |-> digits]

\* a > b on magnitudes (digit sequences without leading zeros)
RECURSIVE GtFrom(_, _, _)
GtFrom(a, b, i) ==
    IF i = 0 THEN FALSE
    ELSE IF a[i] # b[i] THEN a[i] > b[i]
    ELSE GtFrom(a, b, i - 1)

GtMag(a, b) ==
    IF Len(a) # Len(b) THEN Len(a) > Len(b) ELSE GtFrom(a, b, Len(a))

\* (a slip: the test for a negative value left out)
NeverNegative(v) == FALSE

\* Python's  value < 0
IsNegative(v) == v.neg /\ Len(v.mag) > 0
\* Python's  value > limit  for a non-negative literal limit
IsGreater(v, limit) == ~IsNegative(v) /\ GtMag(v.mag, limit)

\* the literals 0xff, 0xffff and 0xffffffff of write8, write16, write32
Limit8 == <<255>>
Limit16 == <<255, 255>>
Limit32 == <<255, 255, 255, 255>>

\* drop the leading (most significant) zero digits
RECURSIVE Canon(_)
Canon(d) ==
    IF Len(d) = 0 THEN d
    ELSE IF d[Len(d)] = 0 THEN Canon(SubSeq(d, 1, Len(d) - 1))
    ELSE d

Reverse(s) == [i \in 1..Len(s) |-> s[Len(s) + 1 - i]]

(***************************************************************************)
(* ctypes.c_uintN: the n bytes of an unsigned integer in the byte order of *)
(* the host, and back.                                                     *)
(***************************************************************************)
\* the n low-order bytes of v as c_uintN lays them out in memory
CUintBytes(v, n, order) ==
    LET le == [i \in 1..n |-> IF i <= Len(v.mag) THEN v.mag[i] ELSE 0]
    IN  IF order = "little" THEN le ELSE Reverse(le)

\* (a slip: the bytes always taken least significant first)
CUintValueLittle(bs, order) == Val(Canon(bs))

\* the .value of a c_uintN over the bytes bs
CUintValue(bs, order) ==
    Val(Canon(IF order = "little" THEN bs ELSE Reverse(bs)))

(***************************************************************************)
(* The machine.                                                            *)
(***************************************************************************)
\* os.sysconf(SC_PAGESIZE)
PageSizes == {4, 4096}
\* what physical memory holds when it is mapped
Background(i) == (i * 37 + 11) % 256

(***************************************************************************)
(* State.                                                                  *)
(***************************************************************************)
VARIABLES
    pagesize,          \* the page size the OS reports
    byteorder,         \* the byte order of the host
    obj,               \* "none", "live" (constructed), "failed" (the
                       \* constructor raised), "dead" (finalized)
    physaddr,          \* self._physaddr
    size,              \* self._size
    aligned_physaddr,  \* self._aligned_physaddr
    aligned_size,      \* self._aligned_size
    mapping,           \* self.mapping: "None" or "mmap"
    fd,                \* the descriptor of /dev/mem: "none", "open", "closed"
    maps,              \* the mappings the process holds: {[offset, length]}
    mem,               \* the bytes of the mapped window, by index
    exports,           \* ctypes objects alive that export the mapping's buffer
    oscalls,           \* the OS calls of _open, in order, with their outcome
    munmaps,           \* how many times the mapping was released
    calls,             \* read and write calls so far
    stored,            \* per index: the byte last stored there by write8 or
                       \* write, -1 when none or overwritten by a wider store
    last               \* the last call: its arguments and its outcome

vars == << pagesize, byteorder, obj, physaddr, size, aligned_physaddr,
           aligned_size, mapping, fd, maps, mem, exports, oscalls, munmaps,
           calls, stored, last >>

meta == << pagesize, byteorder, physaddr, size, aligned_physaddr, aligned_size >>

NoCall ==
    [ op |-> "none", offset |-> 0, value |-> Val(<<>>), data |-> <<>>,
      length |-> 0, err |-> "ok", ret |-> Val(<<>>), bytes |-> <<>>,
      touched |-> {} ]

\* MMIO.__init__ has not run yet
Init ==
    /\ pagesize \in PageSizes
    /\ byteorder \in {"little", "big"}
    /\ obj = "none"
    /\ physaddr = 0
    /\ size = 0
    /\ aligned_physaddr = 0
    /\ aligned_size = 0
    /\ mapping = "None"
    /\ fd = "none"
    /\ maps = {}
    /\ mem = <<>>
    /\ exports = 0
    /\ oscalls = <<>>
    /\ munmaps = 0
    /\ calls = 0
    /\ stored = <<>>
    /\ last = NoCall

(***************************************************************************)
(* Construction: MMIO.__init__ and MMIO._open.                             *)
(***************************************************************************)
\* (a slip: the page size taken for a mask)
AlignDownMask(pa, ps) == pa - (pa % (ps - 1))

AlignDown(pa, ps) == pa - (pa % ps)

AlignedSize(sz, pa, apa) == sz + (pa - apa)

\* (a slip: the result of os.close goes unchecked)
OpenStepsCloseUnchecked(openOK, mapOK, closeOK) ==
    IF ~openOK THEN
        [calls |-> <<[call |-> "open", ok |-> FALSE]>>, err |-> "MMIOError"]
    ELSE IF ~mapOK THEN
        [calls |-> <<[call |-> "open", ok |-> TRUE],
                     [call |-> "mmap", ok |-> FALSE]>>, err |-> "MMIOError"]
    ELSE
        [calls |-> <<[call |-> "open", ok |-> TRUE],
                     [call |-> "mmap", ok |-> TRUE],
                     [call |-> "close", ok |-> closeOK]>>, err |-> "ok"]

\* The three OS calls of _open, each in its own try block.  Returns the
\* calls made and the exception raised, if one.  mmap of a character device
\* with length 0 fails with EINVAL.
OpenSteps(openOK, mapOK, closeOK) ==
    IF ~openOK THEN
        [calls |-> <<[call |-> "open", ok |-> FALSE]>>, err |-> "MMIOError"]
    ELSE IF ~mapOK THEN
        [calls |-> <<[call |-> "open", ok |-> TRUE],
                     [call |-> "mmap", ok |-> FALSE]>>, err |-> "MMIOError"]
    ELSE IF ~closeOK THEN
        [calls |-> <<[call |-> "open", ok |-> TRUE],
                     [call |-> "mmap", ok |-> TRUE],
                     [call |-> "close", ok |-> FALSE]>>, err |-> "MMIOError"]
    ELSE
        [calls |-> <<[call |-> "open", ok |-> TRUE],
                     [call |-> "mmap", ok |-> TRUE],
                     [call |-> "close", ok |-> TRUE]>>, err |-> "ok"]

Construct(pa, sz, openOK, mapOK, closeOK) ==
    /\ obj = "none"
    /\ LET apa == AlignDown(pa, pagesize)
           asz == AlignedSize(sz, pa, apa)
           r == OpenSteps(openOK, mapOK /\ asz > 0, closeOK)
           n == Len(r.calls)
           mapped == n >= 2 /\ r.calls[2].ok
       IN  /\ physaddr' = pa
           /\ size' = sz
           /\ aligned_physaddr' = apa
           /\ aligned_size' = asz
           /\ oscalls' = r.calls
           /\ mapping' = IF mapped THEN "mmap" ELSE "None"
           /\ maps' = IF mapped THEN {[offset |-> apa, length |-> asz]} ELSE {}
           /\ mem' = IF mapped THEN [i \in 0..(asz - 1) |-> Background(i)]
                     ELSE <<>>
           /\ stored' = IF mapped THEN [i \in 0..(asz - 1) |-> -1] ELSE <<>>
           \* a descriptor whose close failed is in an unspecified state
           /\ fd' \in IF ~r.calls[1].ok THEN {"none"}
                      ELSE IF n = 3 /\ r.calls[3].ok THEN {"closed"}
                      ELSE IF n = 3 THEN {"open", "closed"}
                      ELSE {"open"}
           /\ obj' = IF r.err = "ok" THEN "live" ELSE "failed"
           /\ last' = [NoCall EXCEPT !.op = "__init__", !.err = r.err]
    /\ UNCHANGED << pagesize, byteorder, exports, munmaps, calls >>

(***************************************************************************)
(* Offset arithmetic and the buffer views the accessors take.              *)
(***************************************************************************)
adjust_offset(offset) == offset + (physaddr - aligned_physaddr)

\* (a slip: >= where > is meant, one byte more is let through)
validate_offset_lax(offset, length) == ~((offset + length) > aligned_size + 1)

\* TRUE when _validate_offset returns, FALSE when it raises ValueError
validate_offset(offset, length) == ~((offset + length) > aligned_size)

\* (a slip: a view taken as by raw pointer arithmetic, no check of the offset)
from_buffer_unchecked(offset, n) ==
    IF mapping = "None" THEN "TypeError" ELSE "ok"

\* (a slip: a view taken without looking at what self.mapping is)
from_buffer_any(offset, n) ==
    IF offset < 0 THEN "NegativeOffset"
    ELSE IF n > aligned_size - offset THEN "BufferTooSmall"
    ELSE "ok"

\* ctype.from_buffer(self.mapping, offset) for a ctype of n bytes: the
\* exception it raises, or "ok".  None has no buffer; an offset below 0 and
\* a buffer shorter than offset + n are refused.
from_buffer(offset, n) ==
    IF mapping = "None" THEN "TypeError"
    ELSE IF offset < 0 THEN "NegativeOffset"
    ELSE IF n > aligned_size - offset THEN "BufferTooSmall"
    ELSE "ok"

\* the byte at index i of the view; beyond the mapping lies other memory
Peek(m, i) == IF i \in DOMAIN m THEN m[i] ELSE 0

\* the n bytes of the view at off
View(m, off, n) == [i \in 1..n |-> Peek(m, off + i - 1)]

\* one store of a whole c_uintN: its bytes land at off .. off + n - 1
Store(m, off, bs) ==
    [i \in DOMAIN m |->
        IF i >= off /\ i < off + Len(bs) THEN bs[i - off + 1] ELSE m[i]]

\* (a slip: the loop stops one item early)
RECURSIVE CopyLoopShort(_, _, _, _)
CopyLoopShort(m, off, data, i) ==
    IF i >= Len(data) - 1 THEN m
    ELSE CopyLoopShort(Store(m, off + i, <<data[i + 1]>>), off, data, i + 1)

\* the loop of write: c_byte_array[i] = data[i] for i in range(len(data))
RECURSIVE CopyLoop(_, _, _, _)
CopyLoop(m, off, data, i) ==
    IF i >= Len(data) THEN m
    ELSE CopyLoop(Store(m, off + i, <<data[i + 1]>>), off, data, i + 1)

\* bytearray(data) raises ValueError unless every item is in range(0, 256)
IsByteArray(data) == \A i \in 1..Len(data) : data[i] >= 0 /\ data[i] < 256

Span(off, n) == off..(off + n - 1)

\* the record of a call that raised
Raised(op, offset, e) == [NoCall EXCEPT !.op = op, !.offset = offset, !.err = e]

(***************************************************************************)
(* read32, read16, read8 and read.                                         *)
(***************************************************************************)
\* the body shared by read32 (n = 4), read16 (n = 2) and read8 (n = 1)
ReadResult(op, n, offset) ==
    LET off == adjust_offset(offset)
    IN  IF ~validate_offset(off, n) THEN Raised(op, offset, "OutOfBounds")
        ELSE IF from_buffer(off, n) # "ok"
             THEN Raised(op, offset, from_buffer(off, n))
        ELSE [NoCall EXCEPT !.op = op, !.offset = offset,
                            !.ret = CUintValue(View(mem, off, n), byteorder),
                            !.touched = Span(off, n)]

ReadOp(op, n, offset) ==
    /\ obj = "live"
    /\ last' = ReadResult(op, n, offset)
    /\ calls' = calls + 1
    /\ UNCHANGED << meta, obj, mapping, fd, maps, mem, exports, oscalls,
                    munmaps, stored >>

read32(offset) == ReadOp("read32", 4, offset)

read16(offset) == ReadOp("read16", 2, offset)

read8(offset) == ReadOp("read8", 1, offset)

ReadBytesResult(offset, length) ==
    LET off == adjust_offset(offset)
        r == [Raised("read", offset, "ok") EXCEPT !.length = length]
    IN  IF ~validate_offset(off, length) THEN [r EXCEPT !.err = "OutOfBounds"]
        ELSE IF length < 0 THEN [r EXCEPT !.err = "ArrayLength"]
        ELSE IF from_buffer(off, length) # "ok"
             THEN [r EXCEPT !.err = from_buffer(off, length)]
        ELSE [r EXCEPT !.bytes = View(mem, off, length),
                       !.touched = Span(off, length)]

read(offset, length) ==
    /\ obj = "live"
    /\ last' = ReadBytesResult(offset, length)
    /\ calls' = calls + 1
    /\ UNCHANGED << meta, obj, mapping, fd, maps, mem, exports, oscalls,
                    munmaps, stored >>

(***************************************************************************)
(* write32, write16, write8 and write.                                     *)
(***************************************************************************)
\* The body shared by write32, write16 and write8: the call's record and
\* the memory after it.
WriteResult(op, n, limit, offset, value) ==
    LET off == adjust_offset(offset)
        r == [Raised(op, offset, "ok") EXCEPT !.value = value]
    IN  IF IsNegative(value) \/ IsGreater(value, limit)
        THEN [rec |-> [r EXCEPT !.err = "Range"], mem |-> mem]
        ELSE IF ~validate_offset(off, n)
        THEN [rec |-> [r EXCEPT !.err = "OutOfBounds"], mem |-> mem]
        ELSE IF from_buffer(off, n) # "ok"
        THEN [rec |-> [r EXCEPT !.err = from_buffer(off, n)], mem |-> mem]
        ELSE [rec |-> [r EXCEPT !.touched = Span(off, n)],
              mem |-> Store(mem, off, CUintBytes(value, n, byteorder))]

\* what the ghost `stored` becomes after a call that touched `idx`
Remember(idx, byteAt(_)) ==
    [i \in DOMAIN stored |-> IF i \in idx THEN byteAt(i) ELSE stored[i]]

WriteOp(op, n, limit, offset, value) ==
    /\ obj = "live"
    /\ LET w == WriteResult(op, n, limit, offset, value)
           forget(i) == -1
           keep(i) == IF Len(value.mag) = 0 THEN 0 ELSE value.mag[1]
       IN  /\ last' = w.rec
           /\ mem' = w.mem
           /\ calls' = calls + 1
           /\ stored' = IF n = 1 THEN Remember(w.rec.touched, keep)
                        ELSE Remember(w.rec.touched, forget)
    /\ UNCHANGED << meta, obj, mapping, fd, maps, exports, oscalls, munmaps >>

write32(offset, value) == WriteOp("write32", 4, Limit32, offset, value)

write16(offset, value) == WriteOp("write16", 2, Limit16, offset, value)

write8(offset, value) == WriteOp("write8", 1, Limit8, offset, value)

WriteBytesResult(offset, data) ==
    LET off == adjust_offset(offset)
        r == [Raised("write", offset, "ok") EXCEPT !.data = data]
    IN  IF ~validate_offset(off, Len(data))
        THEN [rec |-> [r EXCEPT !.err = "OutOfBounds"], mem |-> mem]
        ELSE IF ~IsByteArray(data)
        THEN [rec |-> [r EXCEPT !.err = "ByteRange"], mem |-> mem]
        ELSE IF from_buffer(off, Len(data)) # "ok"
        THEN [rec |-> [r EXCEPT !.err = from_buffer(off, Len(data))],
              mem |-> mem]
        ELSE [rec |-> [r EXCEPT !.touched = Span(off, Len(data))],
              mem |-> CopyLoop(mem, off, data, 0)]

write(offset, data) ==
    /\ obj = "live"
    /\ LET w == WriteBytesResult(offset, data)
           keep(i) == data[i - adjust_offset(offset) + 1]
       IN  /\ last' = w.rec
           /\ mem' = w.mem
           /\ calls' = calls + 1
           /\ stored' = Remember(w.rec.touched, keep)
    /\ UNCHANGED << meta, obj, mapping, fd, maps, exports, oscalls, munmaps >>

(***************************************************************************)
(* The pointer property, close, __exit__ and __del__.                      *)
(***************************************************************************)
\* ctypes.cast(ctypes.pointer(c_uint8.from_buffer(self.mapping, 0)), ...):
\* the objects it builds export the mapping's buffer while they are alive
pointer ==
    /\ obj = "live"
    /\ LET e == from_buffer(0, 1)
       IN  /\ e = "ok" => exports < MaxExports
           /\ last' = Raised("pointer", 0, e)
           /\ exports' = IF e = "ok" THEN exports + 1 ELSE exports
    /\ UNCHANGED << meta, obj, mapping, fd, maps, mem, oscalls, munmaps,
                    calls, stored >>

\* the caller drops a pointer and the collector frees the ctypes objects
DropPointer ==
    /\ exports > 0
    /\ exports' = exports - 1
    /\ UNCHANGED << meta, obj, mapping, fd, maps, mem, oscalls, munmaps,
                    calls, stored, last >>

\* The body of close.  mapping.close() of an mmap whose buffer is exported
\* raises BufferError where the interpreter counts exports (tracked, as
\* Python 3 does), and unmaps under the exporter where it does not.  The
\* assignment self._fd = None touches nothing any other method reads.
CloseResult(tracked) ==
    IF mapping = "None"
    THEN [err |-> "ok", mapping |-> mapping, maps |-> maps, munmaps |-> munmaps]
    ELSE IF exports > 0 /\ tracked
    THEN [err |-> "BufferError", mapping |-> mapping, maps |-> maps,
          munmaps |-> munmaps]
    ELSE [err |-> "ok", mapping |-> "None",
          maps |-> maps \ {[offset |-> aligned_physaddr,
                            length |-> aligned_size]},
          munmaps |-> munmaps + 1]

CloseOp(op, tracked, after) ==
    /\ LET c == CloseResult(tracked)
       IN  /\ last' = Raised(op, 0, c.err)
           /\ mapping' = c.mapping
           /\ maps' = c.maps
           /\ munmaps' = c.munmaps
    /\ obj' = after
    /\ UNCHANGED << meta, fd, mem, exports, oscalls, calls, stored >>

close == obj = "live" /\ \E t \in BOOLEAN : CloseOp("close", t, obj)

\* __exit__ at the end of a with block
exit == obj = "live" /\ \E t \in BOOLEAN : CloseOp("__exit__", t, obj)

\* __del__, when the last reference to the object goes; it also runs for an
\* object whose constructor raised
del ==
    /\ obj \in {"live", "failed"}
    /\ \E t \in BOOLEAN : CloseOp("__del__", t, "dead")

(***************************************************************************)
(* The specifications.  A value is written as its base-256 digits: <<52,   *)
(* 18>> is 0x1234, <<239, 190, 173, 222>> is 0xdeadbeef, <<0, 0, 0, 0, 1>> *)
(* is 0x100000000.                                                         *)
(***************************************************************************)
\* the calls that touch neither an offset nor a value
Lifecycle == pointer \/ DropPointer \/ close \/ exit \/ del

\* Spec: every operation, on regions with and without an offset adjustment
PhysAddrs == {4096, 4099}
Sizes == {0, 8}
Offsets == {-4, -1, 0, 5, 8}
\* 0x12, 0x100, 0x10000, 0x100000000 and -1
Values == { Val(<<18>>), Val(<<0, 1>>), Val(<<0, 0, 1>>),
            Val(<<0, 0, 0, 0, 1>>), Neg(<<1>>) }
\* the last is a list holding an int that is no byte
Datas == { <<>>, <<1, 2>>, <<7, 256>> }
Lengths == {-1, 0, 2}

Next ==
    \/ \E pa \in PhysAddrs, sz \in Sizes, o, m, c \in BOOLEAN :
          Construct(pa, sz, o, m, c)
    \/ calls < MaxCalls /\ \E offset \in Offsets : read32(offset)
    \/ calls < MaxCalls /\ \E offset \in Offsets : read16(offset)
    \/ calls < MaxCalls /\ \E offset \in Offsets : read8(offset)
    \/ calls < MaxCalls /\ \E offset \in Offsets, length \in Lengths :
          read(offset, length)
    \/ calls < MaxCalls /\ \E offset \in Offsets, value \in Values :
          write32(offset, value)
    \/ calls < MaxCalls /\ \E offset \in Offsets, value \in Values :
          write16(offset, value)
    \/ calls < MaxCalls /\ \E offset \in Offsets, value \in Values :
          write8(offset, value)
    \/ calls < MaxCalls /\ \E offset \in Offsets, data \in Datas :
          write(offset, data)
    \/ pointer
    \/ DropPointer
    \/ close
    \/ exit
    \/ del

Spec == Init /\ [][Next]_vars

\* SpecWord: the fixed-width accessors, with the values at the edges of each
\* width: 0, 0xff, 0x100, 0x1234, 0xffff, 0x10000, 0xdeadbeef, 0xffffffff,
\* 0x100000000 and -1
WordAddrs == {4096, 4099}
WordSizes == {8}
WordOffsets == {0, 4}
WordValues ==
    { Val(<<>>), Val(<<255>>), Val(<<0, 1>>), Val(<<52, 18>>),
      Val(<<255, 255>>), Val(<<0, 0, 1>>), Val(<<239, 190, 173, 222>>),
      Val(<<255, 255, 255, 255>>), Val(<<0, 0, 0, 0, 1>>), Neg(<<1>>) }

NextWord ==
    \/ \E pa \in WordAddrs, sz \in WordSizes, o, m, c \in BOOLEAN :
          Construct(pa, sz, o, m, c)
    \/ calls < MaxWordCalls /\ \E offset \in WordOffsets : read32(offset)
    \/ calls < MaxWordCalls /\ \E offset \in WordOffsets : read16(offset)
    \/ calls < MaxWordCalls /\ \E offset \in WordOffsets : read8(offset)
    \/ calls < MaxWordCalls /\ \E offset \in WordOffsets, value \in WordValues :
          write32(offset, value)
    \/ calls < MaxWordCalls /\ \E offset \in WordOffsets, value \in WordValues :
          write16(offset, value)
    \/ calls < MaxWordCalls /\ \E offset \in WordOffsets, value \in WordValues :
          write8(offset, value)
    \/ close

SpecWord == Init /\ [][NextWord]_vars

\* SpecBytes: byte stores and byte-string reads that overlap
ByteAddrs == {4096, 4099}
ByteSizes == {8}
ByteOffsets == {-1, 0, 2, 7}
\* 0x5a and 0xff
ByteValues == { Val(<<90>>), Val(<<255>>) }
ByteDatas == { <<>>, <<171, 205>>, <<17, 34, 51, 68, 85, 102, 119, 136>> }
ByteLengths == {0, 3, 8}

NextBytes ==
    \/ \E pa \in ByteAddrs, sz \in ByteSizes, o, m, c \in BOOLEAN :
          Construct(pa, sz, o, m, c)
    \/ calls < MaxByteCalls /\ \E offset \in ByteOffsets, length \in ByteLengths :
          read(offset, length)
    \/ calls < MaxByteCalls /\ \E offset \in ByteOffsets, value \in ByteValues :
          write8(offset, value)
    \/ calls < MaxByteCalls /\ \E offset \in ByteOffsets, data \in ByteDatas :
          write(offset, data)
    \/ close

SpecBytes == Init /\ [][NextBytes]_vars

\* SpecAlign: construction over many addresses and sizes, then a few calls
AlignAddrs == {0, 1, 3, 4, 6, 7, 4096, 4097, 4099, 8192, 12290}
AlignSizes == {0, 1, 4, 8}
AlignOffsets == {0, 3}
\* 0x5a and 0x1234
AlignValues == { Val(<<90>>), Val(<<52, 18>>) }

NextAlign ==
    \/ \E pa \in AlignAddrs, sz \in AlignSizes, o, m, c \in BOOLEAN :
          Construct(pa, sz, o, m, c)
    \/ calls < MaxAlignCalls /\ \E offset \in AlignOffsets : read16(offset)
    \/ calls < MaxAlignCalls /\ \E offset \in AlignOffsets, value \in AlignValues :
          write16(offset, value)
    \/ calls < MaxAlignCalls /\ \E offset \in AlignOffsets, value \in AlignValues :
          write8(offset, value)
    \/ Lifecycle

SpecAlign == Init /\ [][NextAlign]_vars

(***************************************************************************)
(* What the calls are expected to do.                                      *)
(***************************************************************************)
ReadWords == {"read32", "read16", "read8"}
WriteWords == {"write32", "write16", "write8"}
Accesses == ReadWords \cup WriteWords \cup {"read", "write"}
CloseCalls == {"close", "__exit__", "__del__"}

\* the number of bytes the call recorded in r reads or writes
NBytes(r) ==
    IF r.op \in {"read32", "write32"} THEN 4
    ELSE IF r.op \in {"read16", "write16"} THEN 2
    ELSE IF r.op \in {"read8", "write8"} THEN 1
    ELSE IF r.op = "read" THEN r.length
    ELSE Len(r.data)

\* 0 <= v <= 2^w - 1 for the width of the write recorded in r: v is not
\* negative and has no more digits than the width has bytes
FitsWidth(r) == ~(r.value.neg /\ r.value.mag # <<>>) /\ Len(r.value.mag) <= NBytes(r)

\* this step is a read or write call
AccessStep == calls' = calls + 1

\* the accessor base; size is the variable of that name
base == physaddr

\* offset_adjustment
OffsetAdjustment == physaddr - aligned_physaddr

\* the relations between the attributes that _open sets
Aligned ==
    /\ aligned_physaddr = physaddr - (physaddr % pagesize)
    /\ aligned_physaddr % pagesize = 0
    /\ aligned_physaddr <= physaddr
    /\ aligned_size = size + (physaddr - aligned_physaddr)
    /\ aligned_size >= size
    /\ 0 <= OffsetAdjustment /\ OffsetAdjustment < pagesize
    /\ base = physaddr

\* C5 (alignment arithmetic): once constructed, aligned_base is physical_base
\* rounded down to a multiple of page_size, aligned_size is requested_size
\* plus the distance rounded off, that distance is in [0, page_size), and no
\* later call changes these values or base and size.
AlignmentArithmetic ==
    [][ /\ obj' # "none" => Aligned'
        /\ obj # "none" => UNCHANGED << meta, base >> ]_vars

\* an unaligned address was constructed, written through and closed
AlignmentWitness ==
    /\ physaddr = 12290 /\ pagesize = 4096 /\ size = 8
    /\ aligned_physaddr = 12288 /\ aligned_size = 10
    /\ mapping = "None" /\ munmaps = 1 /\ calls = 1
    /\ mem # [i \in 0..9 |-> Background(i)]

\* the order of the OS calls in _open
CallOrder == << "open", "mmap", "close" >>

\* C6 (construction outcome): the constructor raises MMIOError exactly when
\* opening /dev/mem, mapping it, or closing the descriptor fails, tried in
\* that order; when it returns, the descriptor is closed and the one mapping
\* of aligned_size bytes at aligned_base is held.
ConstructionOutcome ==
    last.op = "__init__" =>
        /\ Len(oscalls) \in 1..3
        /\ \A i \in 1..Len(oscalls) :
              /\ oscalls[i].call = CallOrder[i]
              /\ i < Len(oscalls) => oscalls[i].ok
        /\ last.err \in {"ok", "MMIOError"}
        /\ last.err = "MMIOError" <=> \E i \in 1..Len(oscalls) : ~oscalls[i].ok
        /\ last.err = "MMIOError" <=> obj = "failed"
        /\ last.err = "ok" =>
              /\ obj = "live"
              /\ Len(oscalls) = 3
              /\ fd = "closed"
              /\ mapping = "mmap"
              /\ maps = {[offset |-> aligned_physaddr, length |-> aligned_size]}

\* a construction of an unaligned region that succeeded: all three OS calls
\* made, the descriptor closed, the mapping held
ConstructionWitness ==
    /\ last.op = "__init__" /\ last.err = "ok" /\ obj = "live"
    /\ Len(oscalls) = 3 /\ oscalls[3].ok
    /\ physaddr = 4099 /\ aligned_size = 11 /\ fd = "closed"
    /\ mapping = "mmap"

\* C9 (nothing left behind by a failed construction): when the constructor
\* raises, the descriptor it opened is not open and no mapping is held.
NothingLeftBehind ==
    obj = "failed" => fd # "open" /\ mapping = "None" /\ maps = {}

\* the call recorded in r reaches past the end of the mapping
BeyondMapping(r) == (r.offset + OffsetAdjustment) + NBytes(r) > aligned_size

\* C2 (out-of-bounds rejection): a read or write of n bytes at offset o with
\* (o + offset_adjustment) + n > aligned_size, its value in range if it is a
\* fixed-width write, raises the out-of-bounds error, returns nothing and
\* changes no byte of the mapping.
OutOfBoundsRejected ==
    [][ ( /\ AccessStep
          /\ last'.op \in Accesses
          /\ last'.op \in WriteWords => FitsWidth(last')
          /\ BeyondMapping(last') )
        => /\ last'.err = "OutOfBounds"
           /\ last'.ret = NoCall.ret /\ last'.bytes = <<>>
           /\ last'.touched = {}
           /\ mem' = mem ]_vars

\* read32(8) on the region of 8 bytes at 0x1000 was refused
OutOfBoundsWitness ==
    /\ physaddr = 4096 /\ size = 8 /\ pagesize = 4096 /\ mapping = "mmap"
    /\ last.op = "read32" /\ last.offset = 8 /\ last.err = "OutOfBounds"

\* C3 (value-range rejection): a fixed-width write of a value below 0 or
\* above 2^w - 1 raises the range error at every offset, in bounds or not,
\* and changes no byte of the mapping.
RangeRejected ==
    [][ (AccessStep /\ last'.op \in WriteWords /\ ~FitsWidth(last'))
        => /\ last'.err = "Range"
           /\ last'.touched = {}
           /\ mem' = mem ]_vars

\* write16(8, 0x10000), whose offset is out of bounds too, raised the range
\* error
RangeWitness ==
    /\ physaddr = 4096 /\ size = 8 /\ mapping = "mmap"
    /\ last.op = "write16" /\ last.offset = 8 /\ last.value = Val(<<0, 0, 1>>)
    /\ last.err = "Range"

\* C8 (access confinement): a read or write, at any offset, touches only
\* indices of the mapping, all the bytes it is about or none, and changes no
\* byte it does not touch.
AccessConfined ==
    [][ AccessStep =>
        LET r == last'
            off == r.offset + OffsetAdjustment
        IN  /\ r.touched \subseteq 0..(aligned_size - 1)
            /\ r.err # "ok" => r.touched = {} /\ mem' = mem
            /\ r.err = "ok" => r.touched = off..(off + NBytes(r) - 1)
            /\ DOMAIN mem' = DOMAIN mem
            /\ \A i \in DOMAIN mem : mem'[i] # mem[i] => i \in r.touched
            /\ (r.err = "ok" /\ r.op = "read") =>
                  r.bytes = [i \in 1..r.length |-> mem[off + i - 1]]
            /\ (r.err = "ok" /\ r.op = "write") =>
                  \A i \in 1..Len(r.data) : mem'[off + i - 1] = r.data[i]
            /\ (r.err = "ok" /\ r.op \in WriteWords) =>
                  \A i \in 1..NBytes(r) :
                     mem'[off + i - 1]
                        = CUintBytes(r.value, NBytes(r), byteorder)[i] ]_vars

\* write32(-1, 0x12) on a region that starts 3 bytes into its page was
\* carried out, on indices 2 to 5
ConfinedWitness ==
    /\ physaddr = 4099 /\ pagesize = 4096 /\ size = 8
    /\ last.op = "write32" /\ last.offset = -1 /\ last.err = "ok"
    /\ last.touched = 2..5
    /\ mem[2] = IF byteorder = "little" THEN 18 ELSE 0

\* C10 (no use after close): once close has released the mapping, every read,
\* write and pointer call raises, touches nothing, changes no byte and hands
\* out no pointer.
NoUseAfterClose ==
    [][ (obj = "live" /\ mapping = "None") =>
        /\ mem' = mem
        /\ exports' <= exports
        /\ (last'.op \in Accesses \cup {"pointer"} /\ obj' = "live") =>
              last'.err # "ok" /\ last'.touched = {} ]_vars

\* read32(0) after close raised
AfterCloseWitness ==
    /\ obj = "live" /\ mapping = "None" /\ munmaps = 1 /\ maps = {}
    /\ last.op = "read32" /\ last.offset = 0 /\ last.err = "TypeError"

\* this step is a call of close, __exit__ or __del__
CloseStep ==
    /\ last'.op \in CloseCalls
    /\ last' # last \/ mapping' # mapping \/ obj' # obj

\* C4 (lifecycle): the region goes from open to closed only, only through
\* close (called, at the end of a with block, or from the finalizer); close
\* on an open region releases the mapping, once, and leaves the region with
\* no mapping; a close after that does nothing and does not raise.
Lifecycle_OpenToClosed ==
    [][ /\ (obj # "none" /\ mapping = "None") => mapping' = "None"
        /\ (mapping = "mmap" /\ mapping' = "None") => last'.op \in CloseCalls
        /\ CloseStep =>
              /\ last'.err = "ok"
              /\ mapping' = "None" /\ maps' = {}
              /\ munmaps' = IF mapping = "mmap" THEN munmaps + 1 ELSE munmaps
              /\ munmaps' <= 1 ]_vars

\* the read of the width of a write
ReaderOf(op) ==
    IF op = "write32" THEN "read32"
    ELSE IF op = "write16" THEN "read16"
    ELSE "read8"

\* C1 (round trip): on an open region a fixed-width write of a value in
\* [0, 2^w - 1] at an offset within the requested size succeeds, and the read
\* of the same width at the same offset that follows it returns that value.
RoundTrip ==
    [][ AccessStep =>
        /\ ( /\ last'.op \in WriteWords
             /\ mapping = "mmap"
             /\ last'.offset >= 0
             /\ last'.offset + NBytes(last') <= size
             /\ FitsWidth(last') )
           => last'.err = "ok"
        /\ ( /\ last.op \in WriteWords /\ last.err = "ok"
             /\ last'.op = ReaderOf(last.op)
             /\ last'.offset = last.offset )
           => last'.err = "ok" /\ last'.ret = last.value ]_vars

\* on the region of 8 bytes at 0x1000, read32(0) returned 0xdeadbeef, which
\* only a write32(0, 0xdeadbeef) before it can have put there
RoundTripWitness ==
    /\ physaddr = 4096 /\ size = 8 /\ pagesize = 4096 /\ byteorder = "big"
    /\ calls = 2
    /\ last.op = "read32" /\ last.offset = 0 /\ last.err = "ok"
    /\ last.ret = Val(<<239, 190, 173, 222>>)
    /\ mem[0] = 222 /\ mem[3] = 239

\* C7 (byte-sequence consistency): on an open region, read of a range inside
\* the mapping returns as many bytes as asked for, each the byte most
\* recently stored at its place by write8 or write; read after write of the
\* same range returns the data written; write changes no byte outside its
\* range.
ByteConsistency ==
    [][ AccessStep =>
        LET r == last'
            off == r.offset + OffsetAdjustment
        IN  /\ ( /\ r.op = "read" /\ mapping = "mmap"
                 /\ off >= 0 /\ r.length >= 0
                 /\ off + r.length <= aligned_size )
               => r.err = "ok"
            /\ (r.op = "read" /\ r.err = "ok") =>
                  /\ Len(r.bytes) = r.length
                  /\ \A i \in 0..(r.length - 1) :
                        stored[off + i] # -1 => r.bytes[i + 1] = stored[off + i]
            /\ ( /\ r.op = "read" /\ r.err = "ok"
                 /\ last.op = "write" /\ last.err = "ok"
                 /\ last.offset = r.offset /\ r.length = Len(last.data) )
               => r.bytes = last.data
            /\ r.op = "write" =>
                  \A i \in DOMAIN mem :
                     (i < off \/ i >= off + Len(r.data)) => mem'[i] = mem[i]
        ]_vars

\* read(0, 8) returned the 8 bytes of an earlier write with the byte a later
\* write8(2, 0xff) put over the third
ByteWitness ==
    /\ mapping = "mmap" /\ calls = 3
    /\ last.op = "read" /\ last.offset = 0 /\ last.length = 8
    /\ last.err = "ok"
    /\ last.bytes = <<17, 34, 255, 68, 85, 102, 119, 136>>

====
